---------------------------- MODULE Spec2Model ----------------------------
(***************************************************************************)
(* A model of src/generate.py, the static-site generator "GitHub Trends   *)
(* Analyzer": one run of main() fetches a list of repository records (or   *)
(* falls back to the embedded data set), counts the records per display    *)
(* language and writes index.html, categories/index.html, one listing page *)
(* per language, one detail page per record and sitemap.xml.               *)
(*                                                                         *)
(* Python strings are sequences of one-character strings, so that slugify, *)
(* format_number and sorted() are computed character by character.  A page *)
(* is the structured data its template binds (the markup around it is      *)
(* fixed text).  A record is a Python dict: `keys` is the set of keys it   *)
(* has; a value that may be None is a sequence of length at most one       *)
(* (<<>> is None).  Every record is taken to carry the keys name, owner    *)
(* and html_url that generate_repo_page reads unconditionally.             *)
(***************************************************************************)
EXTENDS Integers, Sequences, FiniteSets, TLC

VARIABLES
  pc,              \* position of main(): the statement it executes next
  attempts,        \* number of urlopen calls made by fetch_trending_repos
  fetched,         \* what the network returned to fetch_trending_repos
  repos,           \* main's local `repos`
  language_stats,  \* main's local dict, as its items in insertion order
  languages,       \* main's local `languages`
  li,              \* index of the next language in `for lang in languages`
  ri,              \* index of the next record in `for repo in repos`
  written,         \* every f.write of the run, in order: <<path, content>>
  err,             \* the exception that ended the run, <<>> while none
  call             \* a helper called on its own: its argument and results

vars == <<pc, attempts, fetched, repos, language_stats, languages, li, ri,
          written, err, call>>

-----------------------------------------------------------------------------
(* Strings *)

Ascii ==
  <<" ","!","\"","#","$","%","&","'","(",")","*","+",",","-",".","/",
    "0","1","2","3","4","5","6","7","8","9",":",";","<","=",">","?","@",
    "A","B","C","D","E","F","G","H","I","J","K","L","M","N","O","P","Q",
    "R","S","T","U","V","W","X","Y","Z","[","\\","]","^","_","grave",
    "a","b","c","d","e","f","g","h","i","j","k","l","m","n","o","p","q",
    "r","s","t","u","v","w","x","y","z","{","|","}","~">>

\* ord(c) for the printable ASCII characters, the alphabet of the model
\* ("grave" holds the place of code point 96, which no string here uses)
OrdTable ==
  [c \in {Ascii[i] : i \in 1..Len(Ascii)} |->
     31 + (CHOOSE i \in 1..Len(Ascii) : Ascii[i] = c)]

Ord(c) == OrdTable[c]

Chr(n) == Ascii[n - 31]

\* str.lower() on one character
LowerChar(c) == IF Ord(c) \in 65..90 THEN Chr(Ord(c) + 32) ELSE c

Lower(s) == [i \in 1..Len(s) |-> LowerChar(s[i])]

\* the character class [a-z0-9] of slugify's pattern
IsSlugChar(c) == Ord(c) \in 97..122 \/ Ord(c) \in 48..57

RECURSIVE SkipNonSlug(_)
SkipNonSlug(s) ==
  IF s = <<>> \/ IsSlugChar(Head(s)) THEN s ELSE SkipNonSlug(Tail(s))

\* the substitution without the "+" of the pattern: a hyphen for every
\* other character
ReSubEachHyphen(s) ==
  [i \in 1..Len(s) |-> IF IsSlugChar(s[i]) THEN s[i] ELSE "-"]

\* re.sub(r'[^a-z0-9]+', '-', s): every maximal run of other characters
\* becomes one hyphen
RECURSIVE ReSubHyphen(_)
ReSubHyphen(s) ==
  IF s = <<>> THEN <<>>
  ELSE IF IsSlugChar(Head(s)) THEN <<Head(s)>> \o ReSubHyphen(Tail(s))
  ELSE <<"-">> \o ReSubHyphen(SkipNonSlug(s))

RECURSIVE LStripHyphen(_)
LStripHyphen(s) ==
  IF s # <<>> /\ Head(s) = "-" THEN LStripHyphen(Tail(s)) ELSE s

RECURSIVE RStripHyphen(_)
RStripHyphen(s) ==
  IF s # <<>> /\ s[Len(s)] = "-" THEN RStripHyphen(SubSeq(s, 1, Len(s) - 1))
  ELSE s

\* str.strip('-')
StripHyphen(s) == RStripHyphen(LStripHyphen(s))

slugify(text) == StripHyphen(ReSubHyphen(Lower(text)))

\* s < t for Python strings (code point order, a prefix is smaller)
RECURSIVE StrLess(_, _)
StrLess(s, t) ==
  IF t = <<>> THEN FALSE
  ELSE IF s = <<>> THEN TRUE
  ELSE IF Head(s) = Head(t) THEN StrLess(Tail(s), Tail(t))
  ELSE Ord(Head(s)) < Ord(Head(t))

\* sorted(list of strings): insertion after the last element not greater
RECURSIVE InsertStr(_, _)
InsertStr(sorted, x) ==
  IF sorted = <<>> THEN <<x>>
  ELSE IF StrLess(x, Head(sorted)) THEN <<x>> \o sorted
  ELSE <<Head(sorted)>> \o InsertStr(Tail(sorted), x)

\* the strings left in the order they came in
unsorted_strings(s) == s

RECURSIVE sorted_strings(_)
sorted_strings(s) ==
  IF s = <<>> THEN <<>>
  ELSE InsertStr(sorted_strings(SubSeq(s, 1, Len(s) - 1)), s[Len(s)])

-----------------------------------------------------------------------------
(* Numbers *)

\* str(n) for n >= 0
RECURSIVE StrOfNat(_)
StrOfNat(n) ==
  IF n < 10 THEN <<Chr(48 + n)>>
  ELSE StrOfNat(n \div 10) \o <<Chr(48 + (n % 10))>>

\* 2^k mod 20 for k >= 2
Pow2Mod20(k) ==
  CASE k % 4 = 2 -> 4 [] k % 4 = 3 -> 8 [] k % 4 = 0 -> 16 [] OTHER -> 12

\* the binary exponent of odd/20, for odd/20 >= 1
RECURSIVE Exponent(_, _)
Exponent(odd, e) ==
  IF e < 12 /\ 20 * (2 ^ (e + 1)) <= odd THEN Exponent(odd, e + 1)
  ELSE e

\* f"{num / d:.1f}" in tenths.  num / d is the double nearest to the
\* quotient and .1f rounds that double correctly, so a quotient exactly
\* halfway between two tenths goes the way the double's rounding error
\* points, and to the even tenth when the double is exact.
Tenths(num, d) ==
  LET unit == d \div 10
      t0   == num \div unit
      r    == num % unit
      half == unit \div 2
      odd  == 2 * t0 + 1
      rem  == ((odd % 20) * Pow2Mod20(52 - Exponent(odd, 0))) % 20
  IN  IF r < half THEN t0
      ELSE IF r > half THEN t0 + 1
      ELSE IF rem = 0 THEN (IF t0 % 2 = 0 THEN t0 ELSE t0 + 1)
      ELSE IF rem < 10 THEN t0
      ELSE t0 + 1

OneDecimal(num, d) ==
  StrOfNat(Tenths(num, d) \div 10) \o <<".">> \o StrOfNat(Tenths(num, d) % 10)

Thousand == 1000

Million == 1000000

\* format_number with > for >= in both tests
format_number_above(num) ==
  IF num > Million THEN OneDecimal(num, Million) \o <<"m">>
  ELSE IF num > Thousand THEN OneDecimal(num, Thousand) \o <<"k">>
  ELSE StrOfNat(num)

format_number(num) ==
  IF num >= Million THEN OneDecimal(num, Million) \o <<"m">>
  ELSE IF num >= Thousand THEN OneDecimal(num, Thousand) \o <<"k">>
  ELSE StrOfNat(num)

-----------------------------------------------------------------------------
(* Records *)

RepoKeys ==
  {"id", "full_name", "description", "language", "stargazers_count",
   "forks_count", "open_issues_count"}

\* a record with every key; description and language are strings
Repo(id, full_name, description, language, stars, forks, issues) ==
  [keys |-> RepoKeys, id |-> id, full_name |-> full_name,
   description |-> <<description>>, language |-> <<language>>,
   stargazers_count |-> stars, forks_count |-> forks,
   open_issues_count |-> issues]

Has(r, k) == k \in r.keys

\* repo.get("language"): None (<<>>) when the key is absent or null
GetLanguage(r) == IF Has(r, "language") THEN r.language ELSE <<>>

\* repo.get("stargazers_count", 0)
GetStars(r) == IF Has(r, "stargazers_count") THEN r.stargazers_count ELSE 0

\* repo.get("forks_count", 0)
GetForks(r) == IF Has(r, "forks_count") THEN r.forks_count ELSE 0

\* repo.get("open_issues_count", 0)
GetIssues(r) == IF Has(r, "open_issues_count") THEN r.open_issues_count ELSE 0

\* repo.get("description"): None (<<>>) when the key is absent or null
GetDescription(r) == IF Has(r, "description") THEN r.description ELSE <<>>

NoDescriptionAvailable ==
  <<"N","o"," ","d","e","s","c","r","i","p","t","i","o","n"," ",
    "a","v","a","i","l","a","b","l","e">>

NoDescription == <<"N","o"," ","d","e","s","c","r","i","p","t","i","o","n">>

\* x or placeholder: None and "" are falsy
OrElse(x, placeholder) ==
  IF x = <<>> \/ x[1] = <<>> THEN placeholder ELSE x[1]

\* f"{repo.get('description', '')}": the default only replaces an absent
\* key, and None is formatted as the text None
MetaDescription(r) ==
  IF ~Has(r, "description") THEN <<>>
  ELSE IF r.description = <<>> THEN <<"N","o","n","e">>
  ELSE r.description[1]

Unknown == <<"U","n","k","n","o","w","n">>

\* repo.get("language") with "Unknown" for None only: "" stays a language
DisplayLanguageUnlessNone(r) ==
  IF GetLanguage(r) = <<>> THEN Unknown ELSE GetLanguage(r)[1]

\* repo.get("language") or "Unknown": None and "" are falsy
DisplayLanguage(r) ==
  IF GetLanguage(r) = <<>> \/ GetLanguage(r)[1] = <<>> THEN Unknown
  ELSE GetLanguage(r)[1]

\* r.get("language") == lang, lang a string
LanguageIs(r, lang) == GetLanguage(r) = <<lang>>

get_mock_data ==
  <<
    Repo(1, <<"j","o","h","n","d","o","e","/","a","w","e","s","o","m","e","-","a",
         "i","-","a","s","s","i","s","t","a","n","t">>,
         <<"A"," ","p","o","w","e","r","f","u","l"," ","A","I"," ","a","s","s",
         "i","s","t","a","n","t"," ","f","r","a","m","e","w","o","r","k"," ",
         "w","i","t","h"," ","b","u","i","l","t","-","i","n"," ","R","A","G",
         " ","c","a","p","a","b","i","l","i","t","i","e","s",","," ","s","u",
         "p","p","o","r","t","i","n","g"," ","m","u","l","t","i","p","l","e",
         " ","L","L","M"," ","p","r","o","v","i","d","e","r","s"," ","a","n",
         "d"," ","c","u","s","t","o","m"," ","t","o","o","l"," ","i","n","t",
         "e","g","r","a","t","i","o","n","s",".">>,
         <<"P","y","t","h","o","n">>, 12500, 890, 45),
    Repo(2, <<"r","u","s","t","a","c","e","a","n","/","r","u","s","t","-","w","a",
         "s","m","-","r","u","n","t","i","m","e">>,
         <<"H","i","g","h","-","p","e","r","f","o","r","m","a","n","c","e"," ",
         "W","e","b","A","s","s","e","m","b","l","y"," ","r","u","n","t","i",
         "m","e"," ","w","r","i","t","t","e","n"," ","i","n"," ","R","u","s",
         "t"," ","w","i","t","h"," ","W","A","S","I"," ","s","u","p","p","o",
         "r","t"," ","a","n","d"," ","m","i","n","i","m","a","l"," ","o","v",
         "e","r","h","e","a","d",".">>,
         <<"R","u","s","t">>, 9800, 560, 23),
    Repo(3, <<"w","e","b","d","e","v","/","n","e","x","t","j","s","-","d","a","s",
         "h","b","o","a","r","d","-","k","i","t">>,
         <<"P","r","o","d","u","c","t","i","o","n","-","r","e","a","d","y"," ",
         "d","a","s","h","b","o","a","r","d"," ","s","t","a","r","t","e","r",
         " ","w","i","t","h"," ","N","e","x","t",".","j","s"," ","1","4",",",
         " ","T","a","i","l","w","i","n","d"," ","C","S","S",","," ","P","r",
         "i","s","m","a",","," ","a","n","d"," ","N","e","x","t","A","u","t",
         "h","."," ","I","n","c","l","u","d","e","s"," ","2","0","+"," ","U",
         "I"," ","c","o","m","p","o","n","e","n","t","s",".">>,
         <<"T","y","p","e","S","c","r","i","p","t">>, 15400, 1200, 67),
    Repo(4, <<"g","o","d","e","v","/","g","o","-","m","i","c","r","o","s","e","r",
         "v","i","c","e","s","-","f","r","a","m","e","w","o","r","k">>,
         <<"L","i","g","h","t","w","e","i","g","h","t"," ","m","i","c","r","o",
         "s","e","r","v","i","c","e","s"," ","f","r","a","m","e","w","o","r",
         "k"," ","f","o","r"," ","G","o"," ","w","i","t","h"," ","b","u","i",
         "l","t","-","i","n"," ","s","e","r","v","i","c","e"," ","d","i","s",
         "c","o","v","e","r","y",","," ","l","o","a","d"," ","b","a","l","a",
         "n","c","i","n","g",","," ","a","n","d"," ","c","i","r","c","u","i",
         "t"," ","b","r","e","a","k","e","r"," ","p","a","t","t","e","r","n",
         "s",".">>,
         <<"G","o">>, 8200, 430, 34),
    Repo(5, <<"m","o","b","i","l","e","d","e","v","/","r","e","a","c","t","-","n",
         "a","t","i","v","e","-","u","i","-","l","i","b">>,
         <<"C","o","m","p","r","e","h","e","n","s","i","v","e"," ","U","I"," ",
         "l","i","b","r","a","r","y"," ","f","o","r"," ","R","e","a","c","t",
         " ","N","a","t","i","v","e"," ","w","i","t","h"," ","5","0","+"," ",
         "c","o","m","p","o","n","e","n","t","s",","," ","a","n","i","m","a",
         "t","i","o","n","s",","," ","a","n","d"," ","t","h","e","m","i","n",
         "g"," ","s","u","p","p","o","r","t",".">>,
         <<"T","y","p","e","S","c","r","i","p","t">>, 6700, 380, 29),
    Repo(6, <<"m","l","e","n","g","i","n","e","e","r","/","m","l","-","p","i","p",
         "e","l","i","n","e","-","t","o","o","l","s">>,
         <<"E","n","d","-","t","o","-","e","n","d"," ","M","L"," ","p","i","p",
         "e","l","i","n","e"," ","m","a","n","a","g","e","m","e","n","t"," ",
         "w","i","t","h"," ","e","x","p","e","r","i","m","e","n","t"," ","t",
         "r","a","c","k","i","n","g",","," ","m","o","d","e","l"," ","v","e",
         "r","s","i","o","n","i","n","g",","," ","a","n","d"," ","d","e","p",
         "l","o","y","m","e","n","t"," ","a","u","t","o","m","a","t","i","o",
         "n",".">>,
         <<"P","y","t","h","o","n">>, 5400, 290, 18),
    Repo(7, <<"s","v","e","l","t","e","f","a","n","/","s","v","e","l","t","e","k",
         "i","t","-","e","c","o","m","m","e","r","c","e">>,
         <<"F","u","l","l","-","s","t","a","c","k"," ","e","-","c","o","m","m",
         "e","r","c","e"," ","s","o","l","u","t","i","o","n"," ","b","u","i",
         "l","t"," ","w","i","t","h"," ","S","v","e","l","t","e","K","i","t",
         ","," ","f","e","a","t","u","r","i","n","g"," ","c","a","r","t",",",
         " ",
         "c","h","e","c","k","o","u","t",","," ","a","d","m","i","n"," ","p",
         "a","n","e","l",","," ","a","n","d"," ","S","t","r","i","p","e"," ",
         "i","n","t","e","g","r","a","t","i","o","n",".">>,
         <<"T","y","p","e","S","c","r","i","p","t">>, 4300, 210, 15),
    Repo(8, <<"k","8","s","d","e","v","/","k","u","b","e","r","n","e","t","e","s",
         "-","o","p","e","r","a","t","o","r","-","s","d","k">>,
         <<"S","i","m","p","l","i","f","i","e","d"," ","S","D","K"," ","f","o",
         "r"," ","b","u","i","l","d","i","n","g"," ","K","u","b","e","r","n",
         "e","t","e","s"," ","o","p","e","r","a","t","o","r","s"," ","w","i",
         "t","h"," ","m","i","n","i","m","a","l"," ","b","o","i","l","e","r",
         "p","l","a","t","e"," ","a","n","d"," ","b","u","i","l","t","-","i",
         "n"," ","b","e","s","t"," ","p","r","a","c","t","i","c","e","s",".">>,
         <<"G","o">>, 7200, 340, 28),
    Repo(9, <<"p","y","t","h","o","n","i","s","t","a","/","f","a","s","t","a","p",
         "i","-","s","t","a","r","t","e","r","-","t","e","m","p","l","a","t",
         "e">>,
         <<"C","o","m","p","l","e","t","e"," ","F","a","s","t","A","P","I"," ",
         "p","r","o","j","e","c","t"," ","t","e","m","p","l","a","t","e"," ",
         "w","i","t","h"," ","a","u","t","h","e","n","t","i","c","a","t","i",
         "o","n",","," ","d","a","t","a","b","a","s","e"," ","i","n","t","e",
         "g","r","a","t","i","o","n",","," ","c","a","c","h","i","n","g",",",
         " ","a","n","d"," ","d","e","p","l","o","y","m","e","n","t"," ","c",
         "o","n","f","i","g","s",".">>,
         <<"P","y","t","h","o","n">>, 8900, 620, 42),
    Repo(10, <<"v","u","e","j","s","f","a","n","/","v","u","e","-","d","a","s","h",
         "b","o","a","r","d","-","p","r","o">>,
         <<"P","r","o","f","e","s","s","i","o","n","a","l"," ","V","u","e"," ",
         "3"," ","d","a","s","h","b","o","a","r","d"," ","t","e","m","p","l",
         "a","t","e"," ","w","i","t","h"," ","V","i","t","e",","," ","P","i",
         "n","i","a",","," ","a","n","d"," ","c","o","m","p","r","e","h","e",
         "n","s","i","v","e"," ","c","h","a","r","t","i","n","g"," ","l","i",
         "b","r","a","r","y"," ","i","n","t","e","g","r","a","t","i","o","n",
         ".">>,
         <<"V","u","e">>, 5100, 280, 22),
    Repo(11, <<"c","r","y","p","t","o","d","e","v","/","b","l","o","c","k","c","h",
         "a","i","n","-","r","u","s","t","-","n","o","d","e">>,
         <<"E","d","u","c","a","t","i","o","n","a","l"," ","b","l","o","c","k",
         "c","h","a","i","n"," ","i","m","p","l","e","m","e","n","t","a","t",
         "i","o","n"," ","i","n"," ","R","u","s","t"," ","w","i","t","h"," ",
         "P","r","o","o","f"," ","o","f"," ","S","t","a","k","e"," ","c","o",
         "n","s","e","n","s","u","s"," ","a","n","d"," ","s","m","a","r","t",
         " ","c","o","n","t","r","a","c","t"," ","s","u","p","p","o","r","t",
         ".">>,
         <<"R","u","s","t">>, 4600, 390, 31),
    Repo(12, <<"w","e","b","g","l","a","r","t","i","s","t","/","t","h","r","e","e",
         "j","s","-","e","x","p","e","r","i","m","e","n","t","s">>,
         <<"C","o","l","l","e","c","t","i","o","n"," ","o","f"," ","s","t","u",
         "n","n","i","n","g"," ","T","h","r","e","e",".","j","s"," ","e","x",
         "p","e","r","i","m","e","n","t","s",","," ","s","h","a","d","e","r",
         "s",","," ","a","n","d"," ","i","n","t","e","r","a","c","t","i","v",
         "e"," ","3","D"," ","w","e","b"," ","e","x","p","e","r","i","e","n",
         "c","e","s",".">>,
         <<"J","a","v","a","S","c","r","i","p","t">>, 3800, 450, 12),
    Repo(13, <<"f","l","u","t","t","e","r","d","e","v","/","f","l","u","t","t","e",
         "r","-","s","t","a","t","e","-","m","a","n","a","g","e","m","e","n",
         "t">>,
         <<"C","o","m","p","r","e","h","e","n","s","i","v","e"," ","c","o","m",
         "p","a","r","i","s","o","n"," ","a","n","d"," ","e","x","a","m","p",
         "l","e","s"," ","o","f"," ","a","l","l"," ","F","l","u","t","t","e",
         "r"," ","s","t","a","t","e"," ","m","a","n","a","g","e","m","e","n",
         "t"," ","s","o","l","u","t","i","o","n","s",":"," ","R","i","v","e",
         "r","p","o","d",","," ","B","l","o","c",","," ","G","e","t","X",",",
         " ","a","n","d"," ","m","o","r","e",".">>,
         <<"D","a","r","t">>, 6200, 510, 19),
    Repo(14, <<"e","l","i","x","i","r","f","a","n","/","e","l","i","x","i","r","-",
         "p","h","o","e","n","i","x","-","l","i","v","e","v","i","e","w">>,
         <<"R","e","a","l","-","t","i","m","e"," ","a","p","p","l","i","c","a",
         "t","i","o","n","s"," ","w","i","t","h"," ","P","h","o","e","n","i",
         "x"," ","L","i","v","e","V","i","e","w",":"," ","e","x","a","m","p",
         "l","e","s",","," ","p","a","t","t","e","r","n","s",","," ","a","n",
         "d"," ","p","r","o","d","u","c","t","i","o","n","-","r","e","a","d",
         "y"," ","t","e","m","p","l","a","t","e","s",".">>,
         <<"E","l","i","x","i","r">>, 2900, 180, 8),
    Repo(15, <<"d","j","a","n","g","o","d","e","v","/","d","j","a","n","g","o","-",
         "s","a","a","s","-","s","t","a","r","t","e","r">>,
         <<"C","o","m","p","l","e","t","e"," ","D","j","a","n","g","o"," ","S",
         "a","a","S"," ","s","t","a","r","t","e","r"," ","w","i","t","h"," ",
         "m","u","l","t","i","-","t","e","n","a","n","c","y",","," ","S","t",
         "r","i","p","e"," ","b","i","l","l","i","n","g",","," ","t","e","a",
         "m","s",","," ","a","n","d"," ","a","d","m","i","n"," ","d","a","s",
         "h","b","o","a","r","d",".">>,
         <<"P","y","t","h","o","n">>, 7500, 480, 36),
    Repo(16, <<"s","o","l","i","d","f","a","n","/","s","o","l","i","d","j","s","-",
         "c","o","m","p","o","n","e","n","t","s">>,
         <<"M","o","d","e","r","n"," ","U","I"," ","c","o","m","p","o","n","e",
         "n","t"," ","l","i","b","r","a","r","y"," ","f","o","r"," ","S","o",
         "l","i","d","J","S"," ","w","i","t","h"," ","a","c","c","e","s","s",
         "i","b","i","l","i","t","y",","," ","t","h","e","m","i","n","g",",",
         " ","a","n","d"," ","T","y","p","e","S","c","r","i","p","t"," ","s",
         "u","p","p","o","r","t",".">>,
         <<"T","y","p","e","S","c","r","i","p","t">>, 2100, 95, 6),
    Repo(17, <<"c","l","o","j","u","r","i","s","t","/","c","l","o","j","u","r","e",
         "-","d","a","t","a","-","p","r","o","c","e","s","s","i","n","g">>,
         <<"H","i","g","h","-","p","e","r","f","o","r","m","a","n","c","e"," ",
         "d","a","t","a"," ","p","r","o","c","e","s","s","i","n","g"," ","l",
         "i","b","r","a","r","y"," ","i","n"," ","C","l","o","j","u","r","e",
         " ","w","i","t","h"," ","f","u","n","c","t","i","o","n","a","l"," ",
         "t","r","a","n","s","f","o","r","m","a","t","i","o","n","s"," ","a",
         "n","d"," ","p","a","r","a","l","l","e","l"," ","e","x","e","c","u",
         "t","i","o","n",".">>,
         <<"C","l","o","j","u","r","e">>, 1800, 85, 4),
    Repo(18, <<"z","i","g","f","a","n","/","z","i","g","-","s","y","s","t","e","m",
         "s","-","p","r","o","g","r","a","m","m","i","n","g">>,
         <<"S","y","s","t","e","m","s"," ","p","r","o","g","r","a","m","m","i",
         "n","g"," ","e","x","a","m","p","l","e","s"," ","a","n","d"," ","t",
         "o","o","l","s"," ","i","n"," ","Z","i","g",":"," ","m","e","m","o",
         "r","y"," ","a","l","l","o","c","a","t","o","r","s",","," ","k","e",
         "r","n","e","l"," ","m","o","d","u","l","e","s",","," ","a","n","d",
         " ","e","m","b","e","d","d","e","d"," ","p","r","o","j","e","c","t",
         "s",".">>,
         <<"Z","i","g">>, 3200, 220, 11),
    Repo(19, <<"n","g","d","e","v","/","a","n","g","u","l","a","r","-","a","r","c",
         "h","i","t","e","c","t","u","r","e","-","p","a","t","t","e","r","n",
         "s">>,
         <<"E","n","t","e","r","p","r","i","s","e"," ","A","n","g","u","l","a",
         "r"," ","a","r","c","h","i","t","e","c","t","u","r","e"," ","p","a",
         "t","t","e","r","n","s",":"," ","N","x"," ","m","o","n","o","r","e",
         "p","o","s",","," ","s","t","a","t","e"," ","m","a","n","a","g","e",
         "m","e","n","t",","," ","t","e","s","t","i","n","g",","," ","a","n",
         "d"," ","p","e","r","f","o","r","m","a","n","c","e",".">>,
         <<"T","y","p","e","S","c","r","i","p","t">>, 5800, 420, 24),
    Repo(20, <<"l","a","r","a","v","e","l","l","e","r","/","l","a","r","a","v","e",
         "l","-","s","a","a","s","-","b","o","i","l","e","r","p","l","a","t",
         "e">>,
         <<"P","r","o","d","u","c","t","i","o","n","-","r","e","a","d","y"," ",
         "L","a","r","a","v","e","l"," ","S","a","a","S"," ","b","o","i","l",
         "e","r","p","l","a","t","e"," ","w","i","t","h"," ","J","e","t","s",
         "t","r","e","a","m",","," ","C","a","s","h","i","e","r",","," ","t",
         "e","a","m","s",","," ","a","n","d"," ","A","P","I"," ","r","e","s",
         "o","u","r","c","e","s",".">>,
         <<"P","H","P">>, 4100, 310, 17),
    Repo(21, <<"s","w","i","f","t","d","e","v","/","s","w","i","f","t","u","i","-",
         "c","o","m","p","o","n","e","n","t","s","-","l","i","b","r","a","r",
         "y">>,
         <<"B","e","a","u","t","i","f","u","l"," ","S","w","i","f","t","U","I",
         " ","c","o","m","p","o","n","e","n","t"," ","l","i","b","r","a","r",
         "y"," ","w","i","t","h"," ","a","n","i","m","a","t","i","o","n","s",
         ","," ","c","u","s","t","o","m"," ","c","o","n","t","r","o","l","s",
         ",",
         " ","a","n","d"," ","i","O","S"," ","1","7","+"," ","f","e","a","t",
         "u","r","e","s",".">>,
         <<"S","w","i","f","t">>, 3600, 190, 13),
    Repo(22, <<"k","o","t","l","i","n","d","e","v","/","k","o","t","l","i","n","-",
         "m","u","l","t","i","p","l","a","t","f","o","r","m","-","s","d","k">>,
         <<"C","r","o","s","s","-","p","l","a","t","f","o","r","m"," ","S","D",
         "K"," ","d","e","v","e","l","o","p","m","e","n","t"," ","w","i","t",
         "h"," ","K","o","t","l","i","n"," ","M","u","l","t","i","p","l","a",
         "t","f","o","r","m",":"," ","i","O","S",","," ","A","n","d","r","o",
         "i","d",","," ","W","e","b",","," ","a","n","d"," ","D","e","s","k",
         "t","o","p"," ","s","u","p","p","o","r","t",".">>,
         <<"K","o","t","l","i","n">>, 2700, 150, 9),
    Repo(23, <<"g","a","m","e","d","e","v","/","c","p","p","-","g","a","m","e","-",
         "e","n","g","i","n","e">>,
         <<"M","o","d","e","r","n"," ","C","+","+"," ","g","a","m","e"," ","e",
         "n","g","i","n","e"," ","w","i","t","h"," ","V","u","l","k","a","n",
         " ","r","e","n","d","e","r","e","r",","," ","E","C","S"," ","a","r",
         "c","h","i","t","e","c","t","u","r","e",","," ","a","n","d"," ","h",
         "o","t","-","r","e","l","o","a","d","i","n","g"," ","s","u","p","p",
         "o","r","t",".">>,
         <<"C","+","+">>, 5200, 380, 26),
    Repo(24, <<"r","u","b","y","i","s","t","/","r","u","b","y","-","o","n","-","r",
         "a","i","l","s","-","a","p","i","-","t","e","m","p","l","a","t","e">>,
         <<"P","r","o","d","u","c","t","i","o","n","-","r","e","a","d","y"," ",
         "R","a","i","l","s"," ","A","P","I"," ","t","e","m","p","l","a","t",
         "e"," ","w","i","t","h"," ","J","W","T"," ","a","u","t","h",","," ",
         "v","e","r","s","i","o","n","i","n","g",","," ","d","o","c","u","m",
         "e","n","t","a","t","i","o","n",","," ","a","n","d"," ","t","e","s",
         "t","i","n","g"," ","s","e","t","u","p",".">>,
         <<"R","u","b","y">>, 2400, 140, 7),
    Repo(25, <<"h","a","s","k","e","l","l","e","r","/","h","a","s","k","e","l","l",
         "-","w","e","b","-","f","r","a","m","e","w","o","r","k">>,
         <<"T","y","p","e","-","s","a","f","e"," ","w","e","b"," ","f","r","a",
         "m","e","w","o","r","k"," ","i","n"," ","H","a","s","k","e","l","l",
         " ","w","i","t","h"," ","s","e","r","v","a","n","t","-","s","t","y",
         "l","e"," ","r","o","u","t","i","n","g"," ","a","n","d"," ","a","u",
         "t","o","m","a","t","i","c"," ","A","P","I"," ","d","o","c","u","m",
         "e","n","t","a","t","i","o","n",".">>,
         <<"H","a","s","k","e","l","l">>, 1500, 75, 3)
  >>

-----------------------------------------------------------------------------
(* Sorting and exceptions *)

\* a sort that puts an element before the elements of equal key, as sorting
\* ascending and reversing the result would
RECURSIVE InsertByStarsTiesReversed(_, _)
InsertByStarsTiesReversed(sorted, x) ==
  IF sorted = <<>> THEN <<x>>
  ELSE IF GetStars(x) >= GetStars(Head(sorted)) THEN <<x>> \o sorted
  ELSE <<Head(sorted)>> \o InsertByStarsTiesReversed(Tail(sorted), x)

\* list.sort(key=stargazers_count, reverse=True) is stable: an element goes
\* behind every element whose key is not smaller
RECURSIVE InsertByStars(_, _)
InsertByStars(sorted, x) ==
  IF sorted = <<>> THEN <<x>>
  ELSE IF GetStars(x) > GetStars(Head(sorted)) THEN <<x>> \o sorted
  ELSE <<Head(sorted)>> \o InsertByStars(Tail(sorted), x)

\* the list left in the order of the input
unsorted_by_stars(s) == s

RECURSIVE sort_by_stars(_)
sort_by_stars(s) ==
  IF s = <<>> THEN <<>>
  ELSE InsertByStars(sort_by_stars(SubSeq(s, 1, Len(s) - 1)), s[Len(s)])

\* a descending sort that puts an element ahead of the elements of equal count
RECURSIVE InsertByCountTiesReversed(_, _)
InsertByCountTiesReversed(sorted, x) ==
  IF sorted = <<>> THEN <<x>>
  ELSE IF x.count >= Head(sorted).count THEN <<x>> \o sorted
  ELSE <<Head(sorted)>> \o InsertByCountTiesReversed(Tail(sorted), x)

\* sorted(language_stats.items(), key=lambda x: x[1], reverse=True)
RECURSIVE InsertByCount(_, _)
InsertByCount(sorted, x) ==
  IF sorted = <<>> THEN <<x>>
  ELSE IF x.count > Head(sorted).count THEN <<x>> \o sorted
  ELSE <<Head(sorted)>> \o InsertByCount(Tail(sorted), x)

RECURSIVE sort_by_count(_)
sort_by_count(s) ==
  IF s = <<>> THEN <<>>
  ELSE InsertByCount(sort_by_count(SubSeq(s, 1, Len(s) - 1)), s[Len(s)])

\* max(list, key=stargazers_count) of a non-empty list: the first maximum
RECURSIVE MaxByStars(_)
MaxByStars(s) ==
  IF Len(s) = 1 THEN s[1]
  ELSE LET m == MaxByStars(SubSeq(s, 1, Len(s) - 1))
       IN  IF GetStars(s[Len(s)]) > GetStars(m) THEN s[Len(s)] ELSE m

Min(a, b) == IF a < b THEN a ELSE b

HomeLimit == 20

SimilarLimit == 4

Prefix(s, n) == SubSeq(s, 1, IF Len(s) < n THEN Len(s) ELSE n)

\* the records shown on the home page, had they been ranked by stars first
HomeRecordsByStars(rs) == Prefix(sort_by_stars(rs), HomeLimit)

\* repos[:20]
HomeRecords(rs) == Prefix(rs, HomeLimit)

\* the stars of the records the home page shows, not of all records
RECURSIVE SumStarsOfShown(_)
SumStarsOfShown(s) ==
  IF s = <<>> THEN 0
  ELSE IF Len(s) > HomeLimit THEN SumStarsOfShown(SubSeq(s, 1, HomeLimit))
  ELSE GetStars(Head(s)) + SumStarsOfShown(Tail(s))

\* sum(r.get("stargazers_count", 0) for r in repos), added up half by half
RECURSIVE SumStars(_)
SumStars(s) ==
  IF s = <<>> THEN 0
  ELSE IF Len(s) = 1 THEN GetStars(s[1])
  ELSE LET half == Len(s) \div 2
       IN  SumStars(SubSeq(s, 1, half)) + SumStars(SubSeq(s, half + 1, Len(s)))

\* sum(r.get("forks_count", 0) for r in repos), added up half by half
RECURSIVE SumForks(_)
SumForks(s) ==
  IF s = <<>> THEN 0
  ELSE IF Len(s) = 1 THEN GetForks(s[1])
  ELSE LET half == Len(s) \div 2
       IN  SumForks(SubSeq(s, 1, half)) + SumForks(SubSeq(s, half + 1, Len(s)))

\* the value a call returns, or the exception it raises
Return(v) == [ok |-> TRUE, val |-> v]

Raise(e) == [ok |-> FALSE, val |-> e]

KeyError(k) == [type |-> "KeyError", key |-> k]

AllHave(s, k) == \A i \in 1..Len(s) : Has(s[i], k)

-----------------------------------------------------------------------------
(* Pages *)

\* output paths, relative to OUTPUT_DIR
Path(dir, stem, ext) == [dir |-> dir, stem |-> stem, ext |-> ext]

IndexStem == <<"i","n","d","e","x">>

HomePath == Path("", IndexStem, "html")

CategoriesIndexPath == Path("categories", IndexStem, "html")

CategoryPath(lang) == Path("categories", slugify(lang), "html")

RepoPath(full_name) == Path("repos", slugify(full_name), "html")

SitemapPath == Path("", <<"s","i","t","e","m","a","p">>, "xml")

\* an href: the directories it names ("..", "categories", "repos") and
\* the file
Href(dirs, stem) == [dirs |-> dirs, stem |-> stem, ext |-> "html"]

\* an <a> element outside the cards: its href and the page its text names
Link(href, to) == [href |-> href, to |-> to]

\* the logo and the navigation of get_base_html, the same on every page
HeaderLinks ==
  <<Link(Href(<<>>, IndexStem), HomePath),
    Link(Href(<<>>, IndexStem), HomePath),
    Link(Href(<<"categories">>, IndexStem), CategoriesIndexPath)>>

\* the repo-card of the home page and of a listing page; dirs leads to repos/
RepoCard(r, lang, dirs) ==
  LET slug == slugify(r.full_name)
  IN  [href |-> Href(dirs, slug),
       slug |-> slug, full_name |-> r.full_name,
       stars |-> format_number(GetStars(r)),
       description |-> OrElse(GetDescription(r), NoDescriptionAvailable),
       language |-> lang,
       forks |-> format_number(GetForks(r)),
       issues |-> format_number(GetIssues(r))]

\* the repo-card of the "Similar Repositories" section
SimilarCard(r) ==
  LET similar_slug == slugify(r.full_name)
  IN  [href |-> Href(<<>>, similar_slug),
       slug |-> similar_slug, full_name |-> r.full_name,
       stars |-> format_number(GetStars(r)),
       description |-> OrElse(GetDescription(r), NoDescription),
       language |-> DisplayLanguage(r)]

generate_index_page(rs, stats) ==
  LET shown == HomeRecords(rs)
      table == sort_by_count(stats)
  IN  IF ~AllHave(shown, "full_name") THEN Raise(KeyError("full_name"))
      ELSE Return(
        [kind |-> "index",
         nav |-> HeaderLinks,
         n_repos |-> format_number(Len(rs)),
         total_stars |-> format_number(SumStars(rs)),
         total_forks |-> format_number(SumForks(rs)),
         n_languages |-> StrOfNat(Len(stats)),
         table |-> [i \in 1..Len(table) |->
                      LET slug == slugify(table[i].language)
                      IN  [href |-> Href(<<"categories">>, slug),
                           language |-> table[i].language,
                           slug |-> slug,
                           count |-> StrOfNat(table[i].count)]],
         cards |-> [i \in 1..Len(shown) |->
                      RepoCard(shown[i], DisplayLanguage(shown[i]), <<"repos">>)]])

generate_category_page(lang, rs) ==
  LET lang_repos == sort_by_stars(SelectSeq(rs, LAMBDA r : LanguageIs(r, lang)))
  IN  IF ~AllHave(lang_repos, "full_name") THEN Raise(KeyError("full_name"))
      ELSE Return(
        [kind |-> "category",
         nav |-> HeaderLinks
                 \o <<Link(Href(<<"..">>, IndexStem), HomePath),
                      Link(Href(<<>>, IndexStem), CategoriesIndexPath)>>,
         language |-> lang,
         meta_count |-> StrOfNat(Len(lang_repos)),
         count |-> StrOfNat(Len(lang_repos)),
         cards |-> [i \in 1..Len(lang_repos) |->
                      RepoCard(lang_repos[i], lang, <<"..", "repos">>)]])

\* the similar records without the test r["id"] != repo["id"]
SimilarReposWithSelf(repo, all_repos) ==
  LET lang == DisplayLanguage(repo)
      same == SelectSeq(all_repos, LAMBDA r : LanguageIs(r, lang))
  IN  Return(sort_by_stars(same))

\* the list comprehension of generate_repo_page reads r["id"] and repo["id"]
\* for every record of the language, and for no other record
SimilarRepos(repo, all_repos) ==
  LET lang == DisplayLanguage(repo)
      same == SelectSeq(all_repos, LAMBDA r : LanguageIs(r, lang))
  IN  IF same # <<>> /\ ~(AllHave(same, "id") /\ Has(repo, "id"))
      THEN Raise(KeyError("id"))
      ELSE Return(sort_by_stars(SelectSeq(same, LAMBDA r : r.id # repo.id)))

generate_repo_page(repo, all_repos) ==
  LET lang    == DisplayLanguage(repo)
      similar == SimilarRepos(repo, all_repos)
      shown   == Prefix(similar.val, SimilarLimit)
      lang_slug == slugify(lang)
  IN  IF ~Has(repo, "full_name") THEN Raise(KeyError("full_name"))
      ELSE IF ~similar.ok THEN similar
      ELSE IF ~AllHave(shown, "full_name") THEN Raise(KeyError("full_name"))
      ELSE Return(
        [kind |-> "repo",
         nav |-> HeaderLinks
                 \o <<Link(Href(<<"..">>, IndexStem), HomePath),
                      Link(Href(<<"..", "categories">>, lang_slug),
                           Path("categories", lang_slug, "html"))>>,
         full_name |-> repo.full_name,
         meta_description |-> MetaDescription(repo),
         meta_stars |-> format_number(GetStars(repo)),
         meta_language |-> lang,
         description |-> OrElse(GetDescription(repo), NoDescriptionAvailable),
         language |-> lang,
         lang_slug |-> lang_slug,
         stars |-> format_number(GetStars(repo)),
         forks |-> format_number(GetForks(repo)),
         issues |-> format_number(GetIssues(repo)),
         similar |-> [i \in 1..Len(shown) |-> SimilarCard(shown[i])]])

\* language_stats.get(lang, 0)
StatsGet(stats, lang) ==
  IF \E i \in 1..Len(stats) : stats[i].language = lang
  THEN stats[CHOOSE i \in 1..Len(stats) : stats[i].language = lang].count
  ELSE 0

\* the "Top:" value of a language card
TopStars(lang, rs) ==
  LET lang_repos == SelectSeq(rs, LAMBDA r : LanguageIs(r, lang))
  IN  IF lang_repos # <<>> THEN format_number(GetStars(MaxByStars(lang_repos)))
      ELSE <<"0">>

generate_categories_index_page(langs, stats, rs) ==
  LET order == sorted_strings(langs)
  IN  Return(
        [kind |-> "categories_index",
         nav |-> HeaderLinks \o <<Link(Href(<<"..">>, IndexStem), HomePath)>>,
         cards |-> [i \in 1..Len(order) |->
                      LET slug == slugify(order[i])
                      IN  [href |-> Href(<<>>, slug),
                           language |-> order[i],
                           slug |-> slug,
                           count |-> StrOfNat(StatsGet(stats, order[i])),
                           top_stars |-> TopStars(order[i], rs)]]])

\* a <url> element; loc is the address behind base_url
Url(path, changefreq, priority) ==
  [loc |-> path, changefreq |-> changefreq, priority |-> priority]

\* a sitemap whose language addresses lower-case the name instead of
\* slugifying it
generate_sitemap_lower(rs, langs) ==
  IF ~AllHave(rs, "full_name") THEN Raise(KeyError("full_name"))
  ELSE Return(
    [kind |-> "sitemap",
     urls |-> <<Url(HomePath, "daily", "1.0"),
                Url(CategoriesIndexPath, "daily", "0.9")>>
              \o [i \in 1..Len(langs) |->
                    Url(Path("categories", Lower(langs[i]), "html"), "daily", "0.8")]
              \o [i \in 1..Len(rs) |->
                    Url(RepoPath(rs[i].full_name), "weekly", "0.7")]])

generate_sitemap(rs, langs) ==
  IF ~AllHave(rs, "full_name") THEN Raise(KeyError("full_name"))
  ELSE Return(
    [kind |-> "sitemap",
     urls |-> <<Url(HomePath, "daily", "1.0"),
                Url(CategoriesIndexPath, "daily", "0.9")>>
              \o [i \in 1..Len(langs) |->
                    Url(CategoryPath(langs[i]), "daily", "0.8")]
              \o [i \in 1..Len(rs) |->
                    Url(RepoPath(rs[i].full_name), "weekly", "0.7")]])

-----------------------------------------------------------------------------
(* What the network may return *)

MaxDiverse == 2

MaxLong == 6

\* full names by position: distinct strings that either all share the slug
\* "a-b" ("a/b", "a//b", ...) or have distinct slugs ("o/r1", "o/r2", ...)
FullNameAt(i, collide) ==
  IF collide THEN <<"a">> \o [k \in 1..i |-> "/"] \o <<"b">>
  ELSE <<"o", "/", "r">> \o StrOfNat(i)

\* the language of a fetched record: key absent, null, "" or a name;
\* "C++" and "C#" share the slug "c"
LanguageOptions ==
  { [has |-> FALSE, val |-> <<>>],
    [has |-> TRUE,  val |-> <<>>],
    [has |-> TRUE,  val |-> << <<>> >>],
    [has |-> TRUE,  val |-> << <<"C","+","+">> >>],
    [has |-> TRUE,  val |-> << <<"C","#">> >>] }

StarOptions == {0, 1500}

\* which of the identity keys a fetched record has
KeyOptions == { {"id", "full_name"}, {"full_name"}, {"id"} }

\* short lists of records that differ in every way the code looks at: id or
\* full_name missing, language missing or colliding, stars tied or not
DiverseOptions ==
  [keys : KeyOptions, language : LanguageOptions, stars : StarOptions]

\* a record with the keys `keys`; a key it lacks has a fixed value no code
\* reads
Record(keys, id, full_name, description, language, stars, forks, issues) ==
  [keys |-> keys,
   id |-> IF "id" \in keys THEN id ELSE 0,
   full_name |-> IF "full_name" \in keys THEN full_name ELSE <<>>,
   description |-> IF "description" \in keys THEN description ELSE <<>>,
   language |-> IF "language" \in keys THEN language ELSE <<>>,
   stargazers_count |-> IF "stargazers_count" \in keys THEN stars ELSE 0,
   forks_count |-> IF "forks_count" \in keys THEN forks ELSE 0,
   open_issues_count |-> IF "open_issues_count" \in keys THEN issues ELSE 0]

DiverseRecord(i, collide, o) ==
  Record({"stargazers_count"} \cup o.keys
           \cup (IF o.language.has THEN {"language"} ELSE {}),
         i, FullNameAt(i, collide), <<>>, o.language.val, o.stars, 0, 0)

DiverseList(n, collide, o) == [i \in 1..n |-> DiverseRecord(i, collide, o[i])]

\* lists of MaxLong well-formed records, each a "Go" record or a record
\* without language, long enough for more than SimilarLimit records to share
\* a language
LongOptions ==
  { [go |-> TRUE, stars |-> 0], [go |-> TRUE, stars |-> 1500],
    [go |-> FALSE, stars |-> 1500] }

Go == <<"G", "o">>

LongRecord(i, o) ==
  Record(RepoKeys, i, FullNameAt(i, FALSE), <<<<"d">>>>,
         IF o.go THEN <<Go>> ELSE <<>>, o.stars, 0, 0)

LongList(o) == [i \in 1..MaxLong |-> LongRecord(i, o[i])]

\* the description of a fetched record: key absent, null, "" or a text
DescriptionOptions ==
  { [has |-> FALSE, val |-> <<>>],
    [has |-> TRUE,  val |-> <<>>],
    [has |-> TRUE,  val |-> << <<>> >>],
    [has |-> TRUE,  val |-> << <<"d">> >>] }

\* short lists of well-formed records with or without description and
\* language
DescribedOptions == [description : DescriptionOptions, go : BOOLEAN]

DescribedRecord(i, o) ==
  Record({"id", "full_name", "stargazers_count"}
           \cup (IF o.description.has THEN {"description"} ELSE {})
           \cup (IF o.go THEN {"language"} ELSE {}),
         i, FullNameAt(i, FALSE), o.description.val, <<Go>>, 0, 0, 0)

DescribedList(n, o) == [i \in 1..n |-> DescribedRecord(i, o[i])]

\* how many records more than the home page shows a response may carry
MaxExtra == 1

\* lists longer than the home page: the languages alternate between "Go",
\* "C#" and none, the stars rise with the position or are all equal
HomeRecord(i, rising) ==
  Record(RepoKeys, i, FullNameAt(i, FALSE), <<<<"d">>>>,
         IF i % 3 = 1 THEN <<Go>> ELSE IF i % 3 = 2 THEN <<<<"C", "#">>>> ELSE <<>>,
         IF rising THEN 100 * i ELSE 1500, 600 * i, i)

HomeList(n, rising) == [i \in 1..n |-> HomeRecord(i, rising)]

FailureReasons == {"HTTPError", "URLError", "timeout", "JSONDecodeError"}

-----------------------------------------------------------------------------
(* main() *)

Init ==
  /\ pc = "fetch"
  /\ attempts = 0
  /\ fetched = <<>>
  /\ repos = <<>>
  /\ language_stats = <<>>
  /\ languages = <<>>
  /\ li = 1
  /\ ri = 1
  /\ written = <<>>
  /\ err = <<>>
  /\ call = <<>>

\* what fetch_trending_repos returns when the request is answered with the
\* JSON object `data`: data.get("items", [])
Items(data) == IF data.has_items THEN data.items ELSE <<>>

Answered(data) ==
  /\ fetched' = <<[outcome |-> "ok", has_items |-> data.has_items,
                   items |-> data.items]>>
  /\ repos' = Items(data)

\* fetch_trending_repos, the request answered with a JSON object
FetchOk ==
  /\ pc = "fetch"
  /\ \/ Answered([has_items |-> FALSE, items |-> <<>>])
     \/ \E n \in 0..MaxDiverse, collide \in BOOLEAN :
          \E o \in [1..n -> DiverseOptions] :
            Answered([has_items |-> TRUE, items |-> DiverseList(n, collide, o)])
     \/ \E o \in [1..MaxLong -> LongOptions] :
          Answered([has_items |-> TRUE, items |-> LongList(o)])
     \/ \E n \in 1..MaxDiverse :
          \E o \in [1..n -> DescribedOptions] :
            Answered([has_items |-> TRUE, items |-> DescribedList(n, o)])
     \/ \E n \in HomeLimit + 1..HomeLimit + MaxExtra, rising \in BOOLEAN :
          Answered([has_items |-> TRUE, items |-> HomeList(n, rising)])
  /\ attempts' = attempts + 1
  /\ pc' = "stats"
  /\ UNCHANGED <<call, language_stats, languages, li, ri, written, err>>

\* a failed request that yields no records instead of the fallback data set
FetchFailEmpty ==
  /\ pc = "fetch"
  /\ \E reason \in FailureReasons :
       fetched' = <<[outcome |-> reason, has_items |-> FALSE, items |-> <<>>]>>
  /\ repos' = <<>>
  /\ attempts' = attempts + 1
  /\ pc' = "stats"
  /\ UNCHANGED <<call, language_stats, languages, li, ri, written, err>>

\* a fallback that depends on what failed: only an HTTPError yields the
\* fallback data set
FetchFailByReason ==
  /\ pc = "fetch"
  /\ \E reason \in FailureReasons :
       /\ fetched' = <<[outcome |-> reason, has_items |-> FALSE, items |-> <<>>]>>
       /\ repos' = IF reason = "HTTPError" THEN get_mock_data ELSE <<>>
  /\ attempts' = attempts + 1
  /\ pc' = "stats"
  /\ UNCHANGED <<call, language_stats, languages, li, ri, written, err>>

\* fetch_trending_repos, any exception inside the try block
FetchFail ==
  /\ pc = "fetch"
  /\ \E reason \in FailureReasons :
       fetched' = <<[outcome |-> reason, has_items |-> FALSE, items |-> <<>>]>>
  /\ repos' = get_mock_data
  /\ attempts' = attempts + 1
  /\ pc' = "stats"
  /\ UNCHANGED <<call, language_stats, languages, li, ri, written, err>>

\* an entry added for every record, whether its language is there or not
StatsAppend(stats, lang) == Append(stats, [language |-> lang, count |-> 1])

\* language_stats[lang] = language_stats.get(lang, 0) + 1
StatsAdd(stats, lang) ==
  IF \E i \in 1..Len(stats) : stats[i].language = lang
  THEN LET i == CHOOSE i \in 1..Len(stats) : stats[i].language = lang
       IN  [stats EXCEPT ![i].count = @ + 1]
  ELSE Append(stats, [language |-> lang, count |-> 1])

\* the loop `for repo in repos` of main() run on rs with the dict as it is
\* so far: the first half of rs, then the second half (the dict after the
\* first half, never empty, is a value before the second half reads it)
RECURSIVE CountInto(_, _)
CountInto(stats, rs) ==
  IF rs = <<>> THEN stats
  ELSE IF Len(rs) = 1 THEN StatsAdd(stats, DisplayLanguage(rs[1]))
  ELSE LET half  == Len(rs) \div 2
           first == CountInto(stats, SubSeq(rs, 1, half))
       IN  IF first = <<>> THEN first
           ELSE CountInto(first, SubSeq(rs, half + 1, Len(rs)))

\* the counts, had the dict started as {"Unknown": 0}
LanguageStatsFromUnknown(rs) ==
  CountInto(<<[language |-> Unknown, count |-> 0]>>, rs)

\* language_stats = {} and the loop over repos
LanguageStats(rs) == CountInto(<<>>, rs)

\* list(language_stats.keys())
Keys(stats) == [i \in 1..Len(stats) |-> stats[i].language]

CountLanguages ==
  /\ pc = "stats"
  /\ language_stats' = LanguageStats(repos)
  /\ languages' = Keys(LanguageStats(repos))
  /\ pc' = "index"
  /\ UNCHANGED <<call, attempts, fetched, repos, li, ri, written, err>>

\* open(path, "w") and f.write(content)
Write(path, content) ==
  written' = Append(written, [path |-> path, content |-> content])

Fail(e) ==
  /\ pc' = "error"
  /\ err' = <<e>>
  /\ UNCHANGED written

\* main() without its loop over repos: the sitemap follows the listing pages
ContinueWithoutRecords(i, j) ==
  IF i <= Len(languages) THEN "categories" ELSE "sitemap"

\* where main() goes on when the language loop is at i, the record loop at j
Continue(i, j) ==
  IF i <= Len(languages) THEN "categories"
  ELSE IF j <= Len(repos) THEN "repos"
  ELSE "sitemap"

WriteIndex ==
  /\ pc = "index"
  /\ LET page == generate_index_page(repos, language_stats)
     IN  IF page.ok
         THEN Write(HomePath, page.val) /\ pc' = "categories_index" /\ UNCHANGED err
         ELSE Fail(page.val)
  /\ UNCHANGED <<call, attempts, fetched, repos, language_stats, languages, li, ri>>

WriteCategoriesIndex ==
  /\ pc = "categories_index"
  /\ LET page == generate_categories_index_page(languages, language_stats, repos)
     IN  Write(CategoriesIndexPath, page.val)
  /\ pc' = Continue(li, ri)
  /\ UNCHANGED <<call, attempts, fetched, repos, language_stats, languages, li, ri, err>>

\* a listing page made by sorting main's list itself: repos.sort(...)
WriteCategorySortingInPlace ==
  /\ pc = "categories"
  /\ LET lang == languages[li]
         page == generate_category_page(lang, repos)
     IN  IF page.ok
         THEN /\ Write(CategoryPath(lang), page.val)
              /\ li' = li + 1
              /\ pc' = Continue(li + 1, ri)
              /\ repos' = sort_by_stars(repos)
              /\ UNCHANGED err
         ELSE Fail(page.val) /\ UNCHANGED <<li, repos>>
  /\ UNCHANGED <<call, attempts, fetched, language_stats, languages, ri>>

WriteCategory ==
  /\ pc = "categories"
  /\ LET lang == languages[li]
         page == generate_category_page(lang, repos)
     IN  IF page.ok
         THEN /\ Write(CategoryPath(lang), page.val)
              /\ li' = li + 1
              /\ pc' = Continue(li + 1, ri)
              /\ UNCHANGED err
         ELSE Fail(page.val) /\ UNCHANGED li
  /\ UNCHANGED <<call, attempts, fetched, repos, language_stats, languages, ri>>

WriteRepo ==
  /\ pc = "repos"
  /\ LET repo == repos[ri]
         page == generate_repo_page(repo, repos)
     IN  IF page.ok
         THEN /\ Write(RepoPath(repo.full_name), page.val)
              /\ ri' = ri + 1
              /\ pc' = Continue(li, ri + 1)
              /\ UNCHANGED err
         ELSE Fail(page.val) /\ UNCHANGED ri
  /\ UNCHANGED <<call, attempts, fetched, repos, language_stats, languages, li>>

WriteSitemap ==
  /\ pc = "sitemap"
  /\ LET page == generate_sitemap(repos, languages)
     IN  IF page.ok
         THEN Write(SitemapPath, page.val) /\ pc' = "done" /\ UNCHANGED err
         ELSE Fail(page.val)
  /\ UNCHANGED <<call, attempts, fetched, repos, language_stats, languages, li, ri>>

Next ==
  \/ FetchOk
  \/ FetchFail
  \/ CountLanguages
  \/ WriteIndex
  \/ WriteCategoriesIndex
  \/ WriteCategory
  \/ WriteRepo
  \/ WriteSitemap

Spec == Init /\ [][Next]_vars

-----------------------------------------------------------------------------
(* The program run again with the network down *)

MaxRuns == 2

\* the program is started again after a run that ended: main's locals are
\* new, the files of the run before are still there
Rerun ==
  /\ pc = "done"
  /\ attempts < MaxRuns
  /\ pc' = "fetch"
  /\ fetched' = <<>>
  /\ repos' = <<>>
  /\ language_stats' = <<>>
  /\ languages' = <<>>
  /\ li' = 1
  /\ ri' = 1
  /\ UNCHANGED <<attempts, written, err, call>>

RerunNext ==
  \/ FetchFail
  \/ CountLanguages
  \/ WriteIndex
  \/ WriteCategoriesIndex
  \/ WriteCategory
  \/ WriteRepo
  \/ WriteSitemap
  \/ Rerun

RerunSpec == Init /\ [][RerunNext]_vars

-----------------------------------------------------------------------------
(* A response with many records *)

\* as many records as the first threshold of format_number, none with a
\* language, a description or counts
BigList ==
  [i \in 1..Thousand |->
     Record({"id", "full_name"}, i, FullNameAt(i, FALSE), <<>>, <<>>, 0, 0, 0)]

\* fetch_trending_repos, the request answered with the many records
FetchBig ==
  /\ pc = "fetch"
  /\ Answered([has_items |-> TRUE, items |-> BigList])
  /\ attempts' = attempts + 1
  /\ pc' = "stats"
  /\ UNCHANGED <<call, language_stats, languages, li, ri, written, err>>

BigNext ==
  \/ FetchBig
  \/ CountLanguages
  \/ WriteIndex
  \/ WriteCategoriesIndex
  \/ WriteCategory
  \/ WriteRepo
  \/ WriteSitemap

BigSpec == Init /\ [][BigNext]_vars

-----------------------------------------------------------------------------
(* slugify() called on its own *)

MaxLen == 4

\* the characters of the texts slugify is called on: a lower-case letter, an
\* upper-case letter, a digit, the hyphen and two other characters
TextChars == {"a", "Z", "9", "-", "_", " "}

\* no call of main() is under way; slugify is about to be called on a text
SlugInit ==
  /\ pc = "slugify"
  /\ attempts = 0
  /\ fetched = <<>>
  /\ repos = <<>>
  /\ language_stats = <<>>
  /\ languages = <<>>
  /\ li = 1
  /\ ri = 1
  /\ written = <<>>
  /\ err = <<>>
  /\ \E n \in 0..MaxLen :
       \E s \in [1..n -> TextChars] : call = [text |-> s, results |-> <<>>]

\* slugify(text)
Slugify ==
  /\ pc = "slugify"
  /\ call.results = <<>>
  /\ call' = [call EXCEPT !.results = <<slugify(call.text)>>]
  /\ UNCHANGED <<pc, attempts, fetched, repos, language_stats, languages, li,
                 ri, written, err>>

\* slugify called on the result of the call before
SlugifyAgain ==
  /\ pc = "slugify"
  /\ Len(call.results) = 1
  /\ call' = [call EXCEPT !.results = Append(@, slugify(@[1]))]
  /\ UNCHANGED <<pc, attempts, fetched, repos, language_stats, languages, li,
                 ri, written, err>>

SlugNext == Slugify \/ SlugifyAgain

SlugSpec == SlugInit /\ [][SlugNext]_vars

-----------------------------------------------------------------------------
(* format_number() called on its own *)

MaxCount == 1100

\* where the numbers format_number is called on start and how far apart
\* they are: every number up to the first threshold and a little beyond,
\* the numbers around the second threshold, and the multiples of 50 and of
\* 50000, among which are the numbers halfway between two tenths of a
\* thousand and of a million
Grids ==
  { [base |-> 0, step |-> 1], [base |-> 999000, step |-> 1],
    [base |-> 0, step |-> 50], [base |-> 0, step |-> 50000] }

\* no call of main() is under way; format_number is about to be called
FormatInit ==
  /\ pc = "format_number"
  /\ attempts = 0
  /\ fetched = <<>>
  /\ repos = <<>>
  /\ language_stats = <<>>
  /\ languages = <<>>
  /\ li = 1
  /\ ri = 1
  /\ written = <<>>
  /\ err = <<>>
  /\ \E g \in Grids, m \in 0..MaxCount :
       call = [num |-> g.base + g.step * m, results |-> <<>>]

\* format_number(num)
FormatNumber ==
  /\ pc = "format_number"
  /\ call.results = <<>>
  /\ call' = [call EXCEPT !.results = <<format_number(call.num)>>]
  /\ UNCHANGED <<pc, attempts, fetched, repos, language_stats, languages, li,
                 ri, written, err>>

FormatNext == FormatNumber

FormatSpec == FormatInit /\ [][FormatNext]_vars

-----------------------------------------------------------------------------
(* The output directory *)

Paths == {written[i].path : i \in 1..Len(written)}

\* the writes that went to a path, in order
WritesTo(p) == {i \in 1..Len(written) : written[i].path = p}

Last(S) == CHOOSE i \in S : \A j \in S : j <= i

\* the content of the file at a written path: the last write wins
File(p) == written[Last(WritesTo(p))].content

\* the pages main() has generated so far, by kind
Pages(kind) == {i \in 1..Len(written) : written[i].content.kind = kind}

\* the run has left fetch_trending_repos
Fetched == pc # "fetch"

\* the record a card shows, found by its full_name
IndexOf(full_name) ==
  CHOOSE k \in 1..Len(repos) :
    Has(repos[k], "full_name") /\ repos[k].full_name = full_name

WellFormed(r) == Has(r, "id") /\ Has(r, "full_name")

\* the run works on a record set in which every record is well formed
WellFormedRun == Fetched /\ \A k \in 1..Len(repos) : WellFormed(repos[k])

\* the records whose display language is lang, as indexes into repos
Group(lang) == {k \in 1..Len(repos) : DisplayLanguage(repos[k]) = lang}

Range(s) == {s[i] : i \in 1..Len(s)}

-----------------------------------------------------------------------------
(* Sitemap and output paths *)

Locs(sitemap) == {sitemap.urls[i].loc : i \in 1..Len(sitemap.urls)}

\* C1: whenever sitemap.xml is written, the set of page paths it lists is
\* exactly the set of page paths the run has written: no listed path without
\* a written page, no written page without a listed path.
C1_SitemapMatchesPages ==
  SitemapPath \in Paths => Locs(File(SitemapPath)) = Paths \ {SitemapPath}

\* a finished run with two records in two languages besides "Unknown"
C1_Witness ==
  /\ SitemapPath \in Paths
  /\ Len(repos) >= 2
  /\ Len(languages) >= 2
  /\ \E p \in Paths : p.dir = "repos"
  /\ \E p \in Paths : p.dir = "categories" /\ p.stem # IndexStem

\* C2: in the sitemap of a run on well-formed records every written page
\* has exactly one <url> entry and no two entries carry the same address.
C2_OneEntryPerPage ==
  (WellFormedRun /\ SitemapPath \in Paths) =>
    LET urls == File(SitemapPath).urls
    IN  /\ \A i, j \in 1..Len(urls) : i # j => urls[i].loc # urls[j].loc
        /\ \A k \in 1..Len(written) :
             written[k].path # SitemapPath =>
               Cardinality({i \in 1..Len(urls) : urls[i].loc = written[k].path}) = 1

\* C3: a run on well-formed records never writes one page over another: no
\* output path is written twice (a slug collision would have to end the run
\* before the second write).
C3_NoOverwrite ==
  WellFormedRun =>
    \A i, j \in 1..Len(written) : i # j => written[i].path # written[j].path

\* C4: once the listing pages are generated, every well-formed record is on
\* exactly one of them, the one for its display language ("Unknown" when its
\* language is absent, null or empty).
C4_ListingsPartition ==
  pc \in {"repos", "sitemap", "done"} =>
    \A k \in 1..Len(repos) :
      WellFormed(repos[k]) =>
        LET on == {i \in Pages("category") :
                     \E c \in Range(written[i].content.cards) :
                       c.full_name = repos[k].full_name}
        IN  /\ Cardinality(on) = 1
            /\ \A i \in on :
                 written[i].content.language = DisplayLanguage(repos[k])

\* C5: a run whose record set holds a record without id or without
\* full_name never completes, and no detail page is written for such a
\* record.
C5_MalformedIsFatal ==
  (Fetched /\ \E k \in 1..Len(repos) : ~WellFormed(repos[k])) =>
    /\ pc # "done"
    /\ \A k \in 1..Len(repos) : ~WellFormed(repos[k]) => ri <= k

\* main() is at a statement it can execute, or has returned
Running ==
  /\ pc \in {"stats", "index", "categories_index", "categories", "repos",
             "sitemap", "done"}
  /\ pc = "categories" => li \in 1..Len(languages)
  /\ pc = "repos" => ri \in 1..Len(repos)

\* C6: the request is made once; after it the record set is the fallback
\* data set whenever the request failed, and then the run never aborts: it
\* is at a statement it can execute until it is done; otherwise the record
\* set is exactly the items of the answer (none when the answer has no
\* items).
C6_AllOrNothing ==
  /\ attempts = (IF Fetched THEN 1 ELSE 0)
  /\ Fetched =>
       LET answer == fetched[1]
       IN  IF answer.outcome = "ok"
           THEN repos = (IF answer.has_items THEN answer.items ELSE <<>>)
           ELSE /\ repos = get_mock_data
                /\ Running

\* a run on the fallback data set that has written all its pages
C6_Witness ==
  /\ Fetched
  /\ fetched[1].outcome # "ok"
  /\ pc = "done"
  /\ Len(repos) = 25
  /\ SitemapPath \in Paths

-----------------------------------------------------------------------------
(* Similar repositories *)

\* C7: on every detail page the similar set does not contain the page's
\* own record, has at most 4 members, and every member has the display
\* language of the page's record.
C7_SimilarIsSafe ==
  \A i \in Pages("repo") :
    LET page == written[i].content
    IN  /\ Len(page.similar) <= 4
        /\ \A c \in Range(page.similar) :
             /\ c.full_name # page.full_name
             /\ c.language = page.language

\* a detail page that shows 4 similar records out of more candidates
C7_Witness ==
  \E i \in Pages("repo") :
    /\ Len(written[i].content.similar) = 4
    /\ Cardinality(Group(written[i].content.language)) > 5

\* the position in `written` of the detail page of repos[k]
DetailOf(k) == 2 + Len(languages) + k

\* the records other than repos[k] that share its display language, by
\* stars descending and input order on ties, as a list of full names
RECURSIVE Ranked(_)
Ranked(S) ==
  IF S = {} THEN <<>>
  ELSE LET best == CHOOSE k \in S :
                     \A j \in S :
                       \/ GetStars(repos[k]) > GetStars(repos[j])
                       \/ GetStars(repos[k]) = GetStars(repos[j]) /\ k <= j
       IN  <<best>> \o Ranked(S \ {best})

\* C8: the similar set on the detail page of every record is exactly the
\* other records of its display language, by stars descending with ties in
\* input order, cut to the first 4; also when the display language is
\* "Unknown".
C8_SimilarIsExact ==
  \A k \in 1..Len(repos) :
    (k < ri /\ WellFormedRun) =>
      LET page   == written[DetailOf(k)].content
          others == Prefix(Ranked(Group(DisplayLanguage(repos[k])) \ {k}), 4)
      IN  /\ Len(page.similar) = Len(others)
          /\ \A n \in 1..Len(others) :
               page.similar[n].full_name = repos[others[n]].full_name

-----------------------------------------------------------------------------
(* Listing pages and the language index *)

\* C9: on every listing page the cards are in stars-descending order, and
\* cards with equal stars are in the order of their records in the input.
C9_ListingIsRanked ==
  \A i \in Pages("category") :
    LET cards == written[i].content.cards
    IN  \A a, b \in 1..Len(cards) :
          a < b =>
            LET ka == IndexOf(cards[a].full_name)
                kb == IndexOf(cards[b].full_name)
            IN  \/ GetStars(repos[ka]) > GetStars(repos[kb])
                \/ GetStars(repos[ka]) = GetStars(repos[kb]) /\ ka < kb

\* a listing page with a tie and with a record ranked above an earlier one
C9_Witness ==
  \E i \in Pages("category") :
    LET cards == written[i].content.cards
    IN  /\ Len(cards) >= 3
        /\ \E a \in 1..(Len(cards) - 1) :
             GetStars(repos[IndexOf(cards[a].full_name)])
               = GetStars(repos[IndexOf(cards[a + 1].full_name)])
        /\ \E a \in 1..(Len(cards) - 1) :
             IndexOf(cards[a].full_name) > IndexOf(cards[a + 1].full_name)

MaxStars(S) == CHOOSE n \in {GetStars(repos[k]) : k \in S} :
                 \A k \in S : GetStars(repos[k]) <= n

\* C10: for every language on the language-index page of a run on
\* well-formed records the "Top" value is format_number of the highest
\* stargazers_count among the records of that display language.
C10_TopIsGroupMaximum ==
  \A i \in Pages("categories_index") :
    \A c \in Range(written[i].content.cards) :
      WellFormedRun => c.top_stars = format_number(MaxStars(Group(c.language)))

-----------------------------------------------------------------------------
(* Links *)

\* a place in the site: the directories below the output directory and the
\* file
Loc(p) ==
  [dirs |-> IF p.dir = "" THEN <<>> ELSE <<p.dir>>, stem |-> p.stem,
   ext |-> p.ext]

\* the directories reached from `from` by the steps of an href; ".." above
\* the site root stays at the root
RECURSIVE Walk(_, _)
Walk(from, steps) ==
  IF steps = <<>> THEN from
  ELSE IF Head(steps) = ".."
       THEN Walk(IF from = <<>> THEN <<>> ELSE SubSeq(from, 1, Len(from) - 1),
                 Tail(steps))
       ELSE Walk(Append(from, Head(steps)), Tail(steps))

\* where a browser goes from the page at path p when the href is followed
Resolve(p, href) ==
  [dirs |-> Walk(Loc(p).dirs, href.dirs), stem |-> href.stem, ext |-> href.ext]

\* the distinct display languages of the record set
DisplayLanguages == {DisplayLanguage(repos[k]) : k \in 1..Len(repos)}

\* the entry of language_stats for a language
StatsOf(lang) ==
  CHOOSE n \in 0..Len(repos) :
    \/ \E i \in 1..Len(language_stats) :
         language_stats[i].language = lang /\ language_stats[i].count = n
    \/ n = 0 /\ \A i \in 1..Len(language_stats) :
                  language_stats[i].language # lang

\* C11: the language-index page lists every distinct display language of
\* the record set exactly once, in lexicographic (code point) order, each
\* with its count from language_stats, which is the number of records of
\* that display language, and a link that leads to its listing page
\* categories/<slugify(language)>.html.
C11_LanguageIndexIsComplete ==
  \A i \in Pages("categories_index") :
    LET cards == written[i].content.cards
    IN  /\ {cards[n].language : n \in 1..Len(cards)} = DisplayLanguages
        /\ Len(cards) = Cardinality(DisplayLanguages)
        /\ \A a, b \in 1..Len(cards) :
             a < b => StrLess(cards[a].language, cards[b].language)
        /\ \A n \in 1..Len(cards) :
             /\ cards[n].count = StrOfNat(StatsOf(cards[n].language))
             /\ cards[n].count = StrOfNat(Cardinality(Group(cards[n].language)))
             /\ Resolve(written[i].path, cards[n].href)
                  = Loc(CategoryPath(cards[n].language))

\* a language index of three or more languages that were met in another
\* order than the page lists them, one of them more than once
C11_Witness ==
  \E i \in Pages("categories_index") :
    LET cards == written[i].content.cards
    IN  /\ Len(cards) >= 3
        /\ languages # [n \in 1..Len(cards) |-> cards[n].language]
        /\ \E n \in 1..Len(cards) : cards[n].count # <<"1">>

-----------------------------------------------------------------------------
(* The home page *)

\* C12: the repository cards of the home page are exactly the first
\* min(20, N) records of the record set in input order, not re-ranked, and
\* the link of each card leads to repos/<slugify(full_name)>.html.
C12_HomeShowsFirstTwenty ==
  \A i \in Pages("index") :
    LET cards == written[i].content.cards
    IN  /\ Len(cards) = Min(20, Len(repos))
        /\ \A n \in 1..Len(cards) :
             /\ cards[n].full_name = repos[n].full_name
             /\ Resolve(written[i].path, cards[n].href)
                  = Loc(Path("repos", slugify(repos[n].full_name), "html"))

\* a home page made from more than 20 records of which the last has the
\* most stars
C12_Witness ==
  \E i \in Pages("index") :
    /\ Len(repos) > 20
    /\ Len(written[i].content.cards) = 20
    /\ \A k \in 1..(Len(repos) - 1) :
         GetStars(repos[k]) < GetStars(repos[Len(repos)])

\* the stars and the forks of the first k records together
RECURSIVE StarsUpTo(_)
StarsUpTo(k) == IF k = 0 THEN 0 ELSE GetStars(repos[k]) + StarsUpTo(k - 1)

RECURSIVE ForksUpTo(_)
ForksUpTo(k) == IF k = 0 THEN 0 ELSE GetForks(repos[k]) + ForksUpTo(k - 1)

\* C13: the statistics of the home page are computed over all records, not
\* over the records shown: the record count, the total of the stars, the
\* total of the forks, the number of distinct display languages, and the
\* language table, which has every distinct display language once with the
\* number of its records.
C13_HomeStatsCoverAllRecords ==
  \A i \in Pages("index") :
    LET page == written[i].content
    IN  /\ page.n_repos = format_number(Len(repos))
        /\ page.total_stars = format_number(StarsUpTo(Len(repos)))
        /\ page.total_forks = format_number(ForksUpTo(Len(repos)))
        /\ page.n_languages = StrOfNat(Cardinality(DisplayLanguages))
        /\ Len(page.table) = Cardinality(DisplayLanguages)
        /\ {page.table[n].language : n \in 1..Len(page.table)} = DisplayLanguages
        /\ \A n \in 1..Len(page.table) :
             page.table[n].count
               = StrOfNat(Cardinality(Group(page.table[n].language)))

\* a home page made from more than 20 records, the records past the 20th
\* with stars, forks and a language that has more than one record
C13_Witness ==
  \E i \in Pages("index") :
    /\ Len(repos) > 20
    /\ \A k \in 21..Len(repos) :
         /\ GetStars(repos[k]) > 0
         /\ GetForks(repos[k]) > 0
         /\ Cardinality(Group(DisplayLanguage(repos[k]))) > 1
    /\ written[i].content.total_stars
         # format_number(StarsUpTo(20))

Zero == <<"0">>

\* C14: a run on an empty record set never aborts and is at a statement it
\* can execute until it is done; when it is done it has written exactly
\* index.html, categories/index.html and sitemap.xml, the home page shows 0
\* repositories, 0 stars, 0 forks, 0 languages, an empty language table and
\* no card, the language index lists no language, and the sitemap has
\* exactly the two entries of the home page and the language index.
C14_EmptyRunIsComplete ==
  (Fetched /\ repos = <<>>) =>
    /\ Running
    /\ err = <<>>
    /\ \A i \in 1..Len(written) :
         written[i].path \in {HomePath, CategoriesIndexPath, SitemapPath}
    /\ pc = "done" =>
         /\ Len(written) = 3
         /\ Paths = {HomePath, CategoriesIndexPath, SitemapPath}
         /\ LET home == File(HomePath)
            IN  /\ home.n_repos = Zero
                /\ home.total_stars = Zero
                /\ home.total_forks = Zero
                /\ home.n_languages = Zero
                /\ home.table = <<>>
                /\ home.cards = <<>>
         /\ File(CategoriesIndexPath).cards = <<>>
         /\ LET urls == File(SitemapPath).urls
            IN  /\ Len(urls) = 2
                /\ urls[1].loc = HomePath
                /\ urls[2].loc = CategoriesIndexPath

\* a finished run on the empty list of a response that carried "items": []
C14_Witness ==
  /\ pc = "done"
  /\ repos = <<>>
  /\ fetched[1].outcome = "ok"
  /\ fetched[1].has_items
  /\ Len(written) = 3

\* the links of the cards of a page: the href and the page the card is about
CardLinks(page) ==
  IF page.kind = "index"
  THEN {Link(c.href, CategoryPath(c.language)) : c \in Range(page.table)}
         \cup {Link(c.href, RepoPath(c.full_name)) : c \in Range(page.cards)}
  ELSE IF page.kind = "category"
  THEN {Link(c.href, RepoPath(c.full_name)) : c \in Range(page.cards)}
  ELSE IF page.kind = "repo"
  THEN {Link(c.href, RepoPath(c.full_name)) : c \in Range(page.similar)}
  ELSE IF page.kind = "categories_index"
  THEN {Link(c.href, CategoryPath(c.language)) : c \in Range(page.cards)}
  ELSE {}

\* every link of a generated page to another page of the site
LinksOf(page) ==
  IF page.kind = "sitemap" THEN {} ELSE Range(page.nav) \cup CardLinks(page)

\* C15: when the run is done, every link between pages (logo and
\* navigation of the header, breadcrumbs, language cards, repository cards,
\* similar cards), resolved against the directory of the page that contains
\* it, leads to a path the run has written, and that path is the page the
\* link names.
C15_LinksResolve ==
  pc = "done" =>
    \A i \in 1..Len(written) :
      \A l \in LinksOf(written[i].content) :
        /\ l.to \in Paths
        /\ Resolve(written[i].path, l.href) = Loc(l.to)

-----------------------------------------------------------------------------
(* Placeholders *)

\* the record has no description to show: the key is absent, null or ""
Undescribed(r) ==
  ~Has(r, "description") \/ r.description = <<>> \/ r.description = << <<>> >>

\* the text every rendering of the description of r is to show
DescriptionText(r) ==
  IF Undescribed(r) THEN NoDescriptionAvailable ELSE r.description[1]

\* the card shows the description and the language of the record it is about
CardShows(c) ==
  /\ c.description = DescriptionText(repos[IndexOf(c.full_name)])
  /\ c.language = DisplayLanguage(repos[IndexOf(c.full_name)])

\* C16: wherever a description or a language is rendered (the cards of the
\* home page and of the listing pages, the body and the meta description of
\* a detail page, the similar cards), a record without description (key
\* absent, null or "") shows exactly "No description available" and a record
\* without language shows "Unknown"; the text is never empty and never
\* "None".
C16_PlaceholdersEverywhere ==
  WellFormedRun =>
    \A i \in 1..Len(written) :
      LET page == written[i].content
      IN  /\ page.kind \in {"index", "category"} =>
               \A c \in Range(page.cards) : CardShows(c)
          /\ page.kind = "repo" =>
               LET r == repos[IndexOf(page.full_name)]
               IN  /\ page.description = DescriptionText(r)
                   /\ page.meta_description = DescriptionText(r)
                   /\ page.language = DisplayLanguage(r)
                   /\ page.meta_language = DisplayLanguage(r)
                   /\ \A c \in Range(page.similar) : CardShows(c)

-----------------------------------------------------------------------------
(* slugify *)

SlugAlphabet ==
  {"a","b","c","d","e","f","g","h","i","j","k","l","m","n","o","p","q","r",
   "s","t","u","v","w","x","y","z","0","1","2","3","4","5","6","7","8","9",
   "-"}

\* lower-case ASCII letters, digits and hyphens only, no hyphen at either
\* end, no two hyphens in a row
IsSlug(s) ==
  /\ \A i \in 1..Len(s) : s[i] \in SlugAlphabet
  /\ s # <<>> => s[1] # "-" /\ s[Len(s)] # "-"
  /\ \A i \in 1..(Len(s) - 1) : ~(s[i] = "-" /\ s[i + 1] = "-")

\* C17: for every text, slugify(text) consists of lower-case ASCII letters,
\* digits and hyphens only, has no leading and no trailing hyphen and no two
\* consecutive hyphens, and slugify(slugify(text)) = slugify(text).
C17_SlugifyIsNormalForm ==
  pc = "slugify" =>
    /\ \A n \in 1..Len(call.results) : IsSlug(call.results[n])
    /\ Len(call.results) = 2 => call.results[2] = call.results[1]

\* slugify called twice on a text that starts with a hyphen, has an
\* upper-case letter and two other characters in a row
C17_Witness ==
  /\ pc = "slugify"
  /\ Len(call.results) = 2
  /\ call.results[1] # <<>>
  /\ Len(call.text) >= 4
  /\ call.text[1] = "-"
  /\ \E i \in 1..Len(call.text) : call.text[i] = "Z"
  /\ \E i \in 1..(Len(call.text) - 1) :
       call.text[i] \in {"_", " "} /\ call.text[i + 1] \in {"_", " ", "-"}

-----------------------------------------------------------------------------
(* Runs with the network down *)

\* the number of writes of the first run, once it is over
FirstRun == CHOOSE n \in 1..Len(written) : written[n].path = SitemapPath

-----------------------------------------------------------------------------
(* The inputs of the page generators *)

\* main() is at a call of a page-generation function
Generating ==
  pc \in {"index", "categories_index", "categories", "repos", "sitemap"}

\* the page is what its generator returns when called now
SameIfGeneratedNow(page) ==
  IF page.kind = "index"
  THEN page = generate_index_page(repos, language_stats).val
  ELSE IF page.kind = "categories_index"
  THEN page = generate_categories_index_page(languages, language_stats, repos).val
  ELSE IF page.kind = "category"
  THEN page = generate_category_page(page.language, repos).val
  ELSE IF page.kind = "repo"
  THEN \E k \in 1..Len(repos) : page = generate_repo_page(repos[k], repos).val
  ELSE page = generate_sitemap(repos, languages).val

\* C19: no page-generation function changes the record list, its order, a
\* record, language_stats or languages: a step of main() from a call of a
\* generator leaves them as they are, and so every page the run has written
\* is what its generator returns when it is called after all the others,
\* at the end of the run.
C19_GeneratorsLeaveInputsAlone ==
  /\ [][Generating => UNCHANGED <<repos, language_stats, languages>>]_vars
  /\ [](pc = "done" =>
        \A i \in 1..Len(written) : SameIfGeneratedNow(written[i].content))

\* a finished run on three or more records in two or more languages that
\* are not in the order of their stars
C19_Witness ==
  /\ pc = "done"
  /\ Len(repos) >= 3
  /\ Len(languages) >= 2
  /\ \E k \in 1..(Len(repos) - 1) : GetStars(repos[k]) < GetStars(repos[k + 1])

-----------------------------------------------------------------------------
(* Numbers on the pages *)

\* the stars, forks and open issues a card or a detail page shows for the
\* record it is about are rendered by format_number
CountsFormatted(c) ==
  LET r == repos[IndexOf(c.full_name)]
  IN  /\ c.stars = format_number(GetStars(r))
      /\ c.forks = format_number(GetForks(r))
      /\ c.issues = format_number(GetIssues(r))

\* C20: every number a page displays is rendered by format_number: on the
\* home page the record count, the total stars, the total forks and the
\* number of distinct languages; the count of every language on the home
\* page and on the language index; the member count of a listing page; the
\* stars, forks and open issues of every record.
C20_AllNumbersFormatted ==
  WellFormedRun =>
    \A i \in 1..Len(written) :
      LET page == written[i].content
      IN  /\ page.kind = "index" =>
               /\ page.n_repos = format_number(Len(repos))
               /\ page.total_stars = format_number(SumStars(repos))
               /\ page.total_forks = format_number(SumForks(repos))
               /\ page.n_languages = format_number(Len(language_stats))
               /\ \A c \in Range(page.table) :
                    c.count = format_number(StatsGet(language_stats, c.language))
               /\ \A c \in Range(page.cards) : CountsFormatted(c)
          /\ page.kind = "categories_index" =>
               \A c \in Range(page.cards) :
                 c.count = format_number(StatsGet(language_stats, c.language))
          /\ page.kind = "category" =>
               /\ page.count = format_number(Len(page.cards))
               /\ \A c \in Range(page.cards) : CountsFormatted(c)
          /\ page.kind = "repo" => CountsFormatted(page)

-----------------------------------------------------------------------------
(* format_number *)

Digits == <<"0", "1", "2", "3", "4", "5", "6", "7", "8", "9">>

\* the decimal numeral of n
RECURSIVE Decimal(_)
Decimal(n) ==
  IF n < 10 THEN <<Digits[n + 1]>>
  ELSE Decimal(n \div 10) \o <<Digits[(n % 10) + 1]>>

\* the numeral of t tenths with one decimal, followed by a suffix
WithSuffix(t, suffix) ==
  Decimal(t \div 10) \o <<".">> \o Decimal(t % 10) \o <<suffix>>

\* out is n / unit to one decimal followed by the suffix: a number of
\* tenths that is not further than half a tenth from n / unit
IsOneDecimalOf(out, n, unit, suffix) ==
  \E t \in {(10 * n) \div unit, (10 * n) \div unit + 1} :
    /\ 2 * (10 * n - t * unit) <= unit
    /\ 2 * (t * unit - 10 * n) <= unit
    /\ out = WithSuffix(t, suffix)

\* format_number has been called and has returned
Formatted == pc = "format_number" /\ call.results # <<>>

\* C21: for every non-negative integer n, format_number(n) is the plain
\* decimal of n when n < 1000, n / 1000 to one decimal followed by "k" when
\* 1000 <= n < 1000000 and n / 1000000 to one decimal followed by "m" when
\* n >= 1000000; 999 gives "999", 1000 gives "1.0k", 999999 gives "1000.0k"
\* and 1000000 gives "1.0m".
C21_FormatNumberByRange ==
  Formatted =>
    LET n   == call.num
        out == call.results[1]
    IN  /\ n < 1000 => out = Decimal(n)
        /\ (1000 <= n /\ n < 1000000) => IsOneDecimalOf(out, n, 1000, "k")
        /\ n >= 1000000 => IsOneDecimalOf(out, n, 1000000, "m")
        /\ n = 999 => out = <<"9", "9", "9">>
        /\ n = 1000 => out = <<"1", ".", "0", "k">>
        /\ n = 999999 => out = <<"1", "0", "0", "0", ".", "0", "k">>
        /\ n = 1000000 => out = <<"1", ".", "0", "m">>

\* format_number called on the largest number below the second threshold
C21_Witness == Formatted /\ call.num = 999999

\* the number is halfway between two tenths of its unit
Halfway(n) ==
  \/ 1000 <= n /\ n < 1000000 /\ n % 100 = 50
  \/ n >= 1000000 /\ n % 100000 = 50000

\* the next tenth above n / unit
TenthAbove(n) ==
  IF n >= 1000000 THEN WithSuffix(n \div 100000 + 1, "m")
  ELSE WithSuffix(n \div 100 + 1, "k")

\* C22: format_number renders 950 as "950", 12500 as "12.5k" and 1250000
\* as "1.3m": a number halfway between two one-decimal results is rendered
\* as the upper one.
C22_HalfwayRoundsUp ==
  Formatted =>
    LET n   == call.num
        out == call.results[1]
    IN  /\ n = 950 => out = <<"9", "5", "0">>
        /\ n = 12500 => out = <<"1", "2", ".", "5", "k">>
        /\ n = 1250000 => out = <<"1", ".", "3", "m">>
        /\ Halfway(n) => out = TenthAbove(n)

-----------------------------------------------------------------------------
(* The fallback data set *)

\* the run works on the fallback data set
OnFallback == Fetched /\ fetched[1].outcome # "ok"

FallbackLanguages ==
  {<<"P","y","t","h","o","n">>, <<"R","u","s","t">>,
   <<"T","y","p","e","S","c","r","i","p","t">>, <<"G","o">>, <<"V","u","e">>,
   <<"J","a","v","a","S","c","r","i","p","t">>, <<"D","a","r","t">>,
   <<"E","l","i","x","i","r">>, <<"Z","i","g">>, <<"P","H","P">>,
   <<"S","w","i","f","t">>, <<"K","o","t","l","i","n">>, <<"C","+","+">>,
   <<"R","u","b","y">>, <<"H","a","s","k","e","l","l">>,
   <<"C","l","o","j","u","r","e">>}

\* the numbers of records the cards of a language index stand for, added up
RECURSIVE GroupSizes(_)
GroupSizes(cards) ==
  IF cards = <<>> THEN 0
  ELSE Cardinality(Group(Head(cards).language)) + GroupSizes(Tail(cards))

\* C23: on the 25 records of the fallback data set the language index
\* lists exactly the 16 languages Python, Rust, TypeScript, Go, Vue,
\* JavaScript, Dart, Elixir, Zig, PHP, Swift, Kotlin, C++, Ruby, Haskell and
\* Clojure, each with the number of its records, the counts sum to 25, and
\* the 16 languages and the 25 records have pairwise distinct page paths.
C23_FallbackLanguageIndex ==
  OnFallback =>
    /\ Len(repos) = 25
    /\ Cardinality({CategoryPath(l) : l \in FallbackLanguages}) = 16
    /\ Cardinality({RepoPath(repos[k].full_name) : k \in 1..25}) = 25
    /\ \A i \in Pages("categories_index") :
         LET cards == written[i].content.cards
         IN  /\ Len(cards) = 16
             /\ {cards[n].language : n \in 1..Len(cards)} = FallbackLanguages
             /\ \A n \in 1..Len(cards) :
                  cards[n].count = Decimal(Cardinality(Group(cards[n].language)))
             /\ GroupSizes(cards) = 25

\* a finished run on the fallback data set
C23_Witness ==
  /\ OnFallback
  /\ pc = "done"
  /\ Pages("categories_index") # {}

\* the record of the fallback data set with id 9
FastapiStarterTemplate ==
  <<"p","y","t","h","o","n","i","s","t","a","/","f","a","s","t","a","p","i",
    "-","s","t","a","r","t","e","r","-","t","e","m","p","l","a","t","e">>

\* the other Python records of the fallback data set, by stars
OtherPythonRecords ==
  <<[full_name |->
       <<"j","o","h","n","d","o","e","/","a","w","e","s","o","m","e","-","a",
         "i","-","a","s","s","i","s","t","a","n","t">>,
     stars |-> 12500],
    [full_name |->
       <<"d","j","a","n","g","o","d","e","v","/","d","j","a","n","g","o","-",
         "s","a","a","s","-","s","t","a","r","t","e","r">>,
     stars |-> 7500],
    [full_name |->
       <<"m","l","e","n","g","i","n","e","e","r","/","m","l","-","p","i","p",
         "e","l","i","n","e","-","t","o","o","l","s">>,
     stars |-> 5400]>>

\* C24: on the fallback data set the similar set on the detail page of
\* pythonista/fastapi-starter-template (id 9) is exactly
\* johndoe/awesome-ai-assistant (12500 stars),
\* djangodev/django-saas-starter (7500) and mlengineer/ml-pipeline-tools
\* (5400), in this order, and nothing else.
C24_FastapiSimilarSet ==
  OnFallback =>
    /\ repos[9].id = 9
    /\ repos[9].full_name = FastapiStarterTemplate
    /\ \A i \in Pages("repo") :
         written[i].content.full_name = FastapiStarterTemplate =>
           LET similar == written[i].content.similar
           IN  /\ Len(similar) = 3
               /\ \A n \in 1..3 :
                    /\ similar[n].full_name = OtherPythonRecords[n].full_name
                    /\ similar[n].stars = format_number(OtherPythonRecords[n].stars)
                    /\ GetStars(repos[IndexOf(similar[n].full_name)])
                         = OtherPythonRecords[n].stars

\* the detail page of pythonista/fastapi-starter-template has been written
C24_Witness ==
  /\ OnFallback
  /\ \E i \in Pages("repo") :
       written[i].content.full_name = FastapiStarterTemplate

-----------------------------------------------------------------------------
(* Pages on disk after the run *)

\* C25: after a complete run the file repos/<slugify(full_name)>.html of
\* every record holds the detail page of that record, the file
\* categories/<slugify(L)>.html of every display language L holds the
\* listing page of L, categories/index.html holds the language index, and
\* no page written earlier in the run has been replaced by a later one.
C25_EveryPageKeepsItsFile ==
  pc = "done" =>
    /\ \A k \in 1..Len(repos) :
         LET page == File(RepoPath(repos[k].full_name))
         IN  page.kind = "repo" /\ page.full_name = repos[k].full_name
    /\ \A lang \in DisplayLanguages :
         LET page == File(CategoryPath(lang))
         IN  page.kind = "category" /\ page.language = lang
    /\ File(CategoriesIndexPath).kind = "categories_index"
    /\ \A i \in 1..Len(written) : written[i].content = File(written[i].path)

-----------------------------------------------------------------------------
(* The order of the writes *)

\* the place of a kind of page in the order main() writes them
Rank(kind) ==
  CASE kind = "index" -> 1
    [] kind = "categories_index" -> 2
    [] kind = "category" -> 3
    [] kind = "repo" -> 4
    [] kind = "sitemap" -> 5

\* the writes so far are in the order of main(), and a sitemap comes last,
\* after the home page, the language index, a listing page for every entry
\* of languages and a detail page for every record, and lists written pages
\* only
SitemapIsLast ==
  /\ \A i, j \in 1..Len(written) :
       i < j => Rank(written[i].content.kind) <= Rank(written[j].content.kind)
  /\ \A s \in Pages("sitemap") :
       /\ s = Len(written)
       /\ Cardinality(Pages("index")) = 1
       /\ Cardinality(Pages("categories_index")) = 1
       /\ Cardinality(Pages("category")) = Len(languages)
       /\ Cardinality(Pages("repo")) = Len(repos)
       /\ \A loc \in Locs(written[s].content) :
            \E i \in 1..(s - 1) : written[i].path = loc

\* C26: main() writes sitemap.xml only after index.html,
\* categories/index.html, every listing page and every detail page, in
\* that order; a run that aborts has written no sitemap.xml, and what it
\* wrote before stays (no step removes or reorders a write); whenever
\* sitemap.xml is written, every page it lists was written before it in the
\* same run.
C26_SitemapAfterAllPages ==
  /\ [](SitemapIsLast /\ (pc = "error" => Pages("sitemap") = {}))
  /\ [][/\ Len(written') >= Len(written)
        /\ SubSeq(written', 1, Len(written)) = written]_vars

\* a run that aborted after it had written detail pages
C26_Witness ==
  /\ pc = "error"
  /\ Pages("repo") # {}
  /\ Pages("category") # {}

-----------------------------------------------------------------------------
(* Counts per language *)

\* the count a table of language entries shows for a language
CountShown(entries, lang) ==
  LET n == CHOOSE n \in 1..Len(entries) : entries[n].language = lang
  IN  entries[n].count

\* C27: for every display language L, the count shown for L on the home
\* page and on the language index (language_stats[L]) equals the number of
\* repository cards on the listing page of L and the count in that page's
\* header and in its meta description.
C27_CountsAgreeAcrossPages ==
  (WellFormedRun /\ pc \in {"repos", "sitemap", "done"}) =>
    \A i \in Pages("category") :
      LET page == written[i].content
          lang == page.language
      IN  /\ CountShown(File(HomePath).table, lang)
               = Decimal(StatsGet(language_stats, lang))
          /\ CountShown(File(CategoriesIndexPath).cards, lang)
               = Decimal(StatsGet(language_stats, lang))
          /\ Decimal(Len(page.cards)) = Decimal(StatsGet(language_stats, lang))
          /\ page.count = Decimal(StatsGet(language_stats, lang))
          /\ page.meta_count = Decimal(StatsGet(language_stats, lang))

\* the record names no language: the key is absent, null or ""
Unnamed(r) ==
  ~Has(r, "language") \/ r.language = <<>> \/ r.language = << <<>> >>

\* the language a record is to be counted under
CountedUnder(r) == IF Unnamed(r) THEN Unknown ELSE r.language[1]

\* the counts of language_stats added up
RECURSIVE TotalCount(_)
TotalCount(stats) ==
  IF stats = <<>> THEN 0 ELSE Head(stats).count + TotalCount(Tail(stats))

\* C28: language_stats as main() builds it has every distinct display
\* language of the record set exactly once, the records whose language is
\* absent, null or empty all counted under "Unknown"; every count is the
\* number of records of the language and at least 1, and the counts sum to
\* the number of records.
C28_LanguageStatsPartition ==
  pc \in {"index", "categories_index", "categories", "repos", "sitemap",
          "done", "error"} =>
    /\ \A a, b \in 1..Len(language_stats) :
         a # b => language_stats[a].language # language_stats[b].language
    /\ {language_stats[a].language : a \in 1..Len(language_stats)}
         = {CountedUnder(repos[k]) : k \in 1..Len(repos)}
    /\ \A a \in 1..Len(language_stats) :
         /\ language_stats[a].count >= 1
         /\ language_stats[a].count
              = Cardinality({k \in 1..Len(repos) :
                               CountedUnder(repos[k]) = language_stats[a].language})
    /\ TotalCount(language_stats) = Len(repos)

\* language_stats of two records, one without the key and one with an
\* empty language, both counted under "Unknown"
C28_Witness ==
  /\ pc = "index"
  /\ Len(repos) = 2
  /\ ~Has(repos[1], "language")
  /\ Has(repos[2], "language") /\ repos[2].language = << <<>> >>
  /\ language_stats = <<[language |-> Unknown, count |-> 2]>>

-----------------------------------------------------------------------------
(* Order of the "Browse by Language" table *)

\* the indexes of the records counted under `lang`
CountedAt(lang) == {k \in 1..Len(repos) : CountedUnder(repos[k]) = lang}

\* the index of the first record counted under `lang`
FirstCounted(lang) ==
  CHOOSE k \in CountedAt(lang) : \A j \in CountedAt(lang) : k <= j

\* C29: the "Browse by Language" table of the home page has one row per
\* display language of the record set, by count descending, and languages of
\* equal count in the order of their first occurrence in the record list; the
\* record list alone therefore determines the table.
C29_TableByCountThenFirstOccurrence ==
  WritesTo(HomePath) # {} =>
    LET table == File(HomePath).table
    IN  /\ {table[a].language : a \in 1..Len(table)}
             = {CountedUnder(repos[k]) : k \in 1..Len(repos)}
        /\ \A a, b \in 1..Len(table) :
             a < b =>
               LET na == Cardinality(CountedAt(table[a].language))
                   nb == Cardinality(CountedAt(table[b].language))
               IN  /\ table[a].language # table[b].language
                   /\ table[a].count = Decimal(na)
                   /\ \/ na > nb
                      \/ /\ na = nb
                         /\ FirstCounted(table[a].language)
                              < FirstCounted(table[b].language)

\* a home page whose table has two languages of equal count and a language
\* ahead of one that occurs earlier in the record list
C29_Witness ==
  /\ WellFormedRun
  /\ WritesTo(HomePath) # {}
  /\ LET table == File(HomePath).table
     IN  /\ \E a \in 1..(Len(table) - 1) :
               table[a].count = table[a + 1].count
         /\ \E a, b \in 1..Len(table) :
               /\ a < b
               /\ FirstCounted(table[a].language)
                    > FirstCounted(table[b].language)

=============================================================================
